---- MODULE Spec2Model ----
(***************************************************************************)
(* Phantom (src/Phantom/app.py): an in-memory registry of token-scoped     *)
(* rooms, the socket event handlers that relay to a room, and the          *)
(* background thread that deletes expired rooms.                           *)
(*                                                                         *)
(* Threads.  Every socket event runs in its own handler; the HTTP routes   *)
(* run in request handlers; cleanup_rooms runs in a threading.Thread.      *)
(* The code takes no lock, so a handler is modelled as the sequence of its *)
(* accesses to the shared objects (the dict active_rooms, the room dicts   *)
(* it holds, the transport's room groups), one step per access, and the    *)
(* steps of different threads interleave freely.                           *)
(*                                                                         *)
(* Objects.  active_rooms[token] is a dict object {'expiry', 'users'}.     *)
(* `del active_rooms[token]` removes the key, not the object: a handler    *)
(* that fetched the object before the del still reads and writes it.  The  *)
(* model keeps the key list (active_rooms, in insertion order) apart from  *)
(* the objects (room).                                                     *)
(***************************************************************************)
EXTENDS Integers, Sequences, FiniteSets, TLC

VARIABLES
    now,           \* time.time(), in seconds
    ticks,         \* how many times the clock has advanced (bounded)
    active_rooms,  \* the keys of the dict active_rooms, in insertion order
    room,          \* token -> the dict object {'expiry', 'users'} made for it
    issued,        \* tokens secrets.token_urlsafe has returned so far
    groups,        \* the transport's rooms: token -> set of member sids
    conn,          \* sid -> "new" | "up" | "gone"
    h,             \* sid -> the socket handler running for it (pc, ev, data, tmp)
    sw,            \* the cleanup_rooms thread (pc, since, current_time, todo)
    v,             \* the validate_token request in flight (pc, tok, res, remaining)
    inbox,         \* sid -> sequence of events the connection has received
    hist           \* token -> completed joins and leaves (history)

vars == <<now, ticks, active_rooms, room, issued, groups, conn, h, sw, v,
          inbox, hist>>

----------------------------------------------------------------------------
(* Program constants *)

ROOM_TTL == 600

SLEEP_SECS == 10

(* Bounds of the model *)

MaxTicks == 2

MaxEvents == 2

MaxSerialEvents == 4

MaxRelay == 1

\* The token strings clients send, and those among them that
\* secrets.token_urlsafe returns: "T2" is a token no room is ever created for.
Tokens == {"T1", "T2"}

Issuable == {"T1"}

Sids == {"s1", "s2"}

\* The strings a client can put in a payload field that names a room: the
\* transport keeps one namespace for room tokens and connection ids.
Names == Tokens \cup Sids

\* The clock advances by one second or by a room lifetime.
TickSteps == {1, ROOM_TTL}

----------------------------------------------------------------------------
(* Helpers *)

Range(s) == {s[i] : i \in 1..Len(s)}

Remove(s, x) == SelectSeq(s, LAMBDA y : y # x)

\* A membership test that every token string passes
InRegistryAnyToken(t) == t \in Tokens

\* `token in active_rooms`
InRegistry(t) == t \in Range(active_rooms)

\* A payload is a dict: a function from field names to values.
EmptyData == [f \in {} |-> ""]

Has(data, f) == f \in DOMAIN data

\* dict.get(f): None when the field is absent
Get(data, f) == IF Has(data, f) THEN data[f] ELSE "None"

\* The connections the transport delivers to for `room=r`: the members of the
\* group named r; every connection is the one member of the group named by its
\* own sid.
Members(r) ==
    IF r \in Tokens THEN groups[r]
    ELSE IF r \in Sids /\ conn[r] = "up" THEN {r}
    ELSE {}

\* An emit that never leaves the sender out
RecipientsAlwaysSelf(r, from, include_self) == Members(r)

\* An emit that always leaves the sender out
RecipientsNeverSelf(r, from, include_self) == Members(r) \ {from}

\* emit(ev, data, room=r) issued by `from`; include_self=False leaves the
\* sender out.
Recipients(r, from, include_self) ==
    IF include_self THEN Members(r) ELSE Members(r) \ {from}

Emit(ev, data, r, from, include_self) ==
    [s \in Sids |->
        IF s \in Recipients(r, from, include_self)
        THEN Append(inbox[s], [ev |-> ev, data |-> data, room |-> r, from |-> from])
        ELSE inbox[s]]

NoRequest == [pc |-> "idle", tok |-> "None", res |-> "none", remaining |-> 0]

Idle == [pc |-> "idle", ev |-> "none", data |-> EmptyData, tmp |-> 0]

\* The transport hands a connection's next event to a handler.
CanDispatch(s) == conn[s] = "up" /\ h[s].pc = "idle"

\* A handler that raises: the exception leaves the handler with nothing more
\* done.
Raised(ev, data) == [pc |-> "raised", ev |-> ev, data |-> data, tmp |-> 0]

\* The sum of f over S
RECURSIVE SumOver(_, _)
SumOver(f, S) ==
    IF S = {} THEN 0
    ELSE LET x == CHOOSE y \in S : TRUE IN f[x] + SumOver(f, S \ {x})

\* Relay events (message, msg_delivered, typing, metrics) delivered to the
\* busiest connection; the model admits relay events while it is below
\* MaxRelay.
RelayEvents ==
    {"message", "msg_delivered", "display_typing", "hide_typing",
     "update_peer_metrics"}

Relayed(s) == Len(SelectSeq(inbox[s], LAMBDA e : e.ev \in RelayEvents))

CanRelay(s) == CanDispatch(s) /\ \A x \in Sids : Relayed(x) < MaxRelay

\* Joins and leaves that have found their token in the registry, finished or
\* still running.  A specification admits a bounded number of them.
Admitted ==
    SumOver([t \in Tokens |-> hist[t].joins + hist[t].leaves], Tokens)
        + Cardinality({s \in Sids : h[s].ev \in {"join", "leave"}
                                     /\ h[s].pc \in {"room", "read", "write"}})

----------------------------------------------------------------------------
(* Initial state: the module has been imported; no room, no connection, the
   cleanup thread has just entered its first sleep. *)

Init ==
    /\ now = 0
    /\ ticks = 0
    /\ active_rooms = <<>>
    /\ room = [t \in Tokens |-> [expiry |-> 0, users |-> 0]]
    /\ issued = {}
    /\ groups = [t \in Tokens |-> {}]
    /\ conn = [s \in Sids |-> "new"]
    /\ h = [s \in Sids |-> Idle]
    /\ sw = [pc |-> "sleep", since |-> 0, current_time |-> 0, todo |-> <<>>]
    /\ v = NoRequest
    /\ inbox = [s \in Sids |-> <<>>]
    /\ hist = [t \in Tokens |-> [joins |-> 0, leaves |-> 0, floored |-> FALSE]]

----------------------------------------------------------------------------
(* The clock and the transport *)

Tick ==
    /\ ticks < MaxTicks
    /\ \E d \in TickSteps : now' = now + d
    /\ ticks' = ticks + 1
    /\ UNCHANGED <<active_rooms, room, issued, groups, conn, h, sw, v,
                   inbox, hist>>

\* A client connects: the transport gives it a sid.
Connect(s) ==
    /\ conn[s] = "new"
    /\ conn' = [conn EXCEPT ![s] = "up"]
    /\ UNCHANGED <<now, ticks, active_rooms, room, issued, groups, h, sw, v,
                   inbox, hist>>

\* A client disconnects: the transport takes its sid out of every group. The
\* application registers no disconnect handler.
Disconnect(s) ==
    /\ conn[s] = "up"
    /\ h[s].pc = "idle"
    /\ conn' = [conn EXCEPT ![s] = "gone"]
    /\ groups' = [t \in Tokens |-> groups[t] \ {s}]
    /\ UNCHANGED <<now, ticks, active_rooms, room, issued, h, sw, v,
                   inbox, hist>>

----------------------------------------------------------------------------
(* HTTP routes *)

\* secrets.token_urlsafe(8): 64 random bits, taken as a token not returned
\* before.
generate_token(t) ==
    /\ t \notin issued
    /\ issued' = issued \cup {t}
    /\ room' = [room EXCEPT ![t] = [expiry |-> now + ROOM_TTL, users |-> 0]]
    /\ active_rooms' = Append(active_rooms, t)
    /\ UNCHANGED <<now, ticks, groups, conn, h, sw, v, inbox, hist>>

\* validate_token, lines 46-48: data.get('token'), `if token in active_rooms`
validate_token(tok) ==
    /\ v.pc = "idle"
    /\ IF InRegistry(tok)
       THEN v' = [v EXCEPT !.pc = "read", !.tok = tok]
       ELSE v' = [pc |-> "done", tok |-> tok, res |-> "invalid", remaining |-> 0]
    /\ UNCHANGED <<now, ticks, active_rooms, room, issued, groups, conn, h, sw,
                   inbox, hist>>

\* validate_token, lines 49-52: `active_rooms[token]['expiry'] - time.time()`;
\* the subscript raises KeyError when the key has been deleted since line 48.
validate_token_read ==
    /\ v.pc = "read"
    /\ IF InRegistry(v.tok)
       THEN LET remaining == room[v.tok].expiry - now IN
            IF remaining > 0
            THEN v' = [v EXCEPT !.pc = "done", !.res = "valid",
                                !.remaining = remaining]
            ELSE v' = [v EXCEPT !.pc = "done", !.res = "invalid"]
       ELSE v' = [v EXCEPT !.pc = "done", !.res = "KeyError"]
    /\ UNCHANGED <<now, ticks, active_rooms, room, issued, groups, conn, h, sw,
                   inbox, hist>>

\* The response (or the error) has gone back to the HTTP client.
validate_token_return ==
    /\ v.pc = "done"
    /\ v' = NoRequest
    /\ UNCHANGED <<now, ticks, active_rooms, room, issued, groups, conn, h, sw,
                   inbox, hist>>

----------------------------------------------------------------------------
(* Socket events.  The payloads a client sends name a room by any string of
   the transport's namespace. *)

TokenData == {[token |-> x] : x \in Names}

MessageData == {[token |-> x, msg |-> "hi"] : x \in Names}

ConfirmData == {[sender_socket_id |-> x, msg_id |-> "m1"] : x \in Names}

MetricsData == {[token |-> x, ping |-> "p1"] : x \in Names}

\* The exception has left the handler: the transport is ready for the
\* connection's next event.
handler_return(s) ==
    /\ h[s].pc = "raised"
    /\ h' = [h EXCEPT ![s] = Idle]
    /\ UNCHANGED <<now, ticks, active_rooms, room, issued, groups, conn, sw, v,
                   inbox, hist>>

\* on_join, lines 58-59: data['token'], `if token in active_rooms`
on_join(s, data) ==
    /\ CanDispatch(s)
    /\ IF ~Has(data, "token")
       THEN h' = [h EXCEPT ![s] = Raised("join", data)]
       ELSE IF InRegistry(data.token)
       THEN h' = [h EXCEPT ![s] = [pc |-> "room", ev |-> "join",
                                   data |-> data, tmp |-> 0]]
       ELSE UNCHANGED h
    /\ UNCHANGED <<now, ticks, active_rooms, room, issued, groups, conn, sw, v,
                   inbox, hist>>

\* on_join, line 60: join_room(token)
on_join_room(s) ==
    /\ h[s].ev = "join" /\ h[s].pc = "room"
    /\ groups' = [groups EXCEPT ![h[s].data.token] = @ \cup {s}]
    /\ h' = [h EXCEPT ![s].pc = "read"]
    /\ UNCHANGED <<now, ticks, active_rooms, room, issued, conn, sw, v, inbox, hist>>

\* on_join, line 61, the load of `active_rooms[token]['users'] += 1`
on_join_read(s) ==
    /\ h[s].ev = "join" /\ h[s].pc = "read"
    /\ IF InRegistry(h[s].data.token)
       THEN h' = [h EXCEPT ![s].pc = "write",
                           ![s].tmp = room[h[s].data.token].users]
       ELSE h' = [h EXCEPT ![s].pc = "raised"]
    /\ UNCHANGED <<now, ticks, active_rooms, room, issued, groups, conn, sw, v,
                   inbox, hist>>

\* A join that stores the count it loaded
IncrementedNot(users) == users

\* `+= 1`
Incremented(users) == users + 1

\* A join whose store also gives the room a fresh lifetime
on_join_write_renewing(s) ==
    /\ h[s].ev = "join" /\ h[s].pc = "write"
    /\ room' = [room EXCEPT ![h[s].data.token] =
                    [expiry |-> now + ROOM_TTL, users |-> Incremented(h[s].tmp)]]
    /\ hist' = [hist EXCEPT ![h[s].data.token].joins = @ + 1]
    /\ h' = [h EXCEPT ![s].pc = "emit"]
    /\ UNCHANGED <<now, ticks, active_rooms, issued, groups, conn, sw, v, inbox>>

\* on_join, line 61, the store: into the room object loaded above, whether or
\* not active_rooms still holds it
on_join_write(s) ==
    /\ h[s].ev = "join" /\ h[s].pc = "write"
    /\ room' = [room EXCEPT ![h[s].data.token].users = Incremented(h[s].tmp)]
    /\ hist' = [hist EXCEPT ![h[s].data.token].joins = @ + 1]
    /\ h' = [h EXCEPT ![s].pc = "emit"]
    /\ UNCHANGED <<now, ticks, active_rooms, issued, groups, conn, sw, v, inbox>>

\* on_join, line 63:
\* emit('update_status', {'count': active_rooms[token]['users']}, room=token)
on_join_emit(s) ==
    /\ h[s].ev = "join" /\ h[s].pc = "emit"
    /\ IF InRegistry(h[s].data.token)
       THEN /\ inbox' = Emit("update_status",
                             [count |-> room[h[s].data.token].users],
                             h[s].data.token, s, TRUE)
            /\ h' = [h EXCEPT ![s] = Idle]
       ELSE /\ h' = [h EXCEPT ![s].pc = "raised"]
            /\ UNCHANGED inbox
    /\ UNCHANGED <<now, ticks, active_rooms, room, issued, groups, conn, sw, v, hist>>

\* on_leave, lines 67-68
on_leave(s, data) ==
    /\ CanDispatch(s)
    /\ IF ~Has(data, "token")
       THEN h' = [h EXCEPT ![s] = Raised("leave", data)]
       ELSE IF InRegistry(data.token)
       THEN h' = [h EXCEPT ![s] = [pc |-> "room", ev |-> "leave",
                                   data |-> data, tmp |-> 0]]
       ELSE UNCHANGED h
    /\ UNCHANGED <<now, ticks, active_rooms, room, issued, groups, conn, sw, v,
                   inbox, hist>>

\* on_leave, line 69: leave_room(token)
on_leave_room(s) ==
    /\ h[s].ev = "leave" /\ h[s].pc = "room"
    /\ groups' = [groups EXCEPT ![h[s].data.token] = @ \ {s}]
    /\ h' = [h EXCEPT ![s].pc = "read"]
    /\ UNCHANGED <<now, ticks, active_rooms, room, issued, conn, sw, v, inbox, hist>>

\* on_leave, line 70, the right-hand side: active_rooms[token]['users']
on_leave_read(s) ==
    /\ h[s].ev = "leave" /\ h[s].pc = "read"
    /\ IF InRegistry(h[s].data.token)
       THEN h' = [h EXCEPT ![s].pc = "write",
                           ![s].tmp = room[h[s].data.token].users]
       ELSE h' = [h EXCEPT ![s].pc = "raised"]
    /\ UNCHANGED <<now, ticks, active_rooms, room, issued, groups, conn, sw, v,
                   inbox, hist>>

\* A leave without the floor: users - 1
DecrementedUnfloored(users) == users - 1

\* max(0, users - 1)
Decremented(users) == IF users - 1 > 0 THEN users - 1 ELSE 0

\* on_leave, line 70, the store: the target active_rooms[token] is looked up
\* again after the right-hand side, so the store raises KeyError when the key
\* has gone and never writes a deleted room.
on_leave_write(s) ==
    /\ h[s].ev = "leave" /\ h[s].pc = "write"
    /\ IF InRegistry(h[s].data.token)
       THEN /\ room' = [room EXCEPT ![h[s].data.token].users = Decremented(h[s].tmp)]
            /\ hist' = [hist EXCEPT ![h[s].data.token].leaves = @ + 1,
                                    ![h[s].data.token].floored = @ \/ h[s].tmp = 0]
            /\ h' = [h EXCEPT ![s].pc = "emit"]
       ELSE /\ h' = [h EXCEPT ![s].pc = "raised"]
            /\ UNCHANGED <<room, hist>>
    /\ UNCHANGED <<now, ticks, active_rooms, issued, groups, conn, sw, v, inbox>>

\* on_leave, line 71
on_leave_emit(s) ==
    /\ h[s].ev = "leave" /\ h[s].pc = "emit"
    /\ IF InRegistry(h[s].data.token)
       THEN /\ inbox' = Emit("update_status",
                             [count |-> room[h[s].data.token].users],
                             h[s].data.token, s, TRUE)
            /\ h' = [h EXCEPT ![s] = Idle]
       ELSE /\ h' = [h EXCEPT ![s].pc = "raised"]
            /\ UNCHANGED inbox
    /\ UNCHANGED <<now, ticks, active_rooms, room, issued, groups, conn, sw, v, hist>>

\* handle_message, lines 75-76
handle_message(s, data) ==
    /\ CanRelay(s)
    /\ IF ~Has(data, "token")
       THEN h' = [h EXCEPT ![s] = Raised("message", data)]
       ELSE IF InRegistry(data.token)
       THEN h' = [h EXCEPT ![s] = [pc |-> "emit", ev |-> "message",
                                   data |-> data, tmp |-> 0]]
       ELSE UNCHANGED h
    /\ UNCHANGED <<now, ticks, active_rooms, room, issued, groups, conn, sw, v,
                   inbox, hist>>

\* A relay that forwards the message without its token field
handle_message_emit_stripped(s) ==
    /\ h[s].ev = "message" /\ h[s].pc = "emit"
    /\ h' = [h EXCEPT ![s] = Idle]
    /\ inbox' = Emit("message", [msg |-> h[s].data.msg], h[s].data.token, s, TRUE)
    /\ UNCHANGED <<now, ticks, active_rooms, room, issued, groups, conn, sw, v, hist>>

\* handle_message, line 79: emit('message', data, room=token)
handle_message_emit(s) ==
    /\ h[s].ev = "message" /\ h[s].pc = "emit"
    /\ h' = [h EXCEPT ![s] = Idle]
    /\ inbox' = Emit("message", h[s].data, h[s].data.token, s, TRUE)
    /\ UNCHANGED <<now, ticks, active_rooms, room, issued, groups, conn, sw, v, hist>>

\* `if sender_sid:` -- None and the empty string are false
Truthy(x) == x # "None" /\ x # ""

\* confirm_delivery, lines 87-89
confirm_delivery(s, data) ==
    /\ CanRelay(s)
    /\ LET sender_sid == Get(data, "sender_socket_id") IN
       IF ~Truthy(sender_sid)
       THEN UNCHANGED <<inbox, h>>
       ELSE IF ~Has(data, "msg_id")
       THEN h' = [h EXCEPT ![s] = Raised("confirm_delivery", data)] /\ UNCHANGED inbox
       ELSE /\ inbox' = Emit("msg_delivered", [msg_id |-> data.msg_id],
                             sender_sid, s, TRUE)
            /\ UNCHANGED h
    /\ UNCHANGED <<now, ticks, active_rooms, room, issued, groups, conn, sw, v, hist>>

\* handle_typing, lines 93-94
handle_typing(s, data) ==
    /\ CanRelay(s)
    /\ IF ~Has(data, "token")
       THEN h' = [h EXCEPT ![s] = Raised("typing", data)] /\ UNCHANGED inbox
       ELSE /\ inbox' = Emit("display_typing", EmptyData, data.token, s, FALSE)
            /\ UNCHANGED h
    /\ UNCHANGED <<now, ticks, active_rooms, room, issued, groups, conn, sw, v, hist>>

\* handle_stop_typing, lines 98-99
handle_stop_typing(s, data) ==
    /\ CanRelay(s)
    /\ IF ~Has(data, "token")
       THEN h' = [h EXCEPT ![s] = Raised("stop_typing", data)] /\ UNCHANGED inbox
       ELSE /\ inbox' = Emit("hide_typing", EmptyData, data.token, s, FALSE)
            /\ UNCHANGED h
    /\ UNCHANGED <<now, ticks, active_rooms, room, issued, groups, conn, sw, v, hist>>

\* ping_check, line 103: returns time.time() to the caller as the event's
\* acknowledgement; it reads and writes nothing else.
ping_check(s) ==
    /\ CanDispatch(s)
    /\ UNCHANGED vars

\* share_metrics, lines 107-108
share_metrics(s, data) ==
    /\ CanRelay(s)
    /\ IF ~Has(data, "token") \/ ~Has(data, "ping")
       THEN h' = [h EXCEPT ![s] = Raised("share_metrics", data)] /\ UNCHANGED inbox
       ELSE /\ inbox' = Emit("update_peer_metrics", [ping |-> data.ping],
                             data.token, s, FALSE)
            /\ UNCHANGED h
    /\ UNCHANGED <<now, ticks, active_rooms, room, issued, groups, conn, sw, v, hist>>

----------------------------------------------------------------------------
(* cleanup_rooms, the background thread *)

\* lines 20-23: time.sleep(10) returns no earlier than 10 seconds after it was
\* called; then current_time = time.time() and the loop's list(keys) snapshot.
cleanup_wake ==
    /\ sw.pc = "sleep"
    /\ now >= sw.since + SLEEP_SECS
    /\ sw' = [sw EXCEPT !.pc = "loop", !.current_time = now, !.todo = active_rooms]
    /\ UNCHANGED <<now, ticks, active_rooms, room, issued, groups, conn, h, v,
                   inbox, hist>>

\* A test that also takes a room whose expiry is the current time
ExpiredOrDue(current_time, expiry) == current_time >= expiry

\* line 24: the test
Expired(current_time, expiry) == current_time > expiry

\* lines 23-25: the next token of the snapshot; when it is expired,
\* socketio.emit('room_expired', room=token)
cleanup_check ==
    /\ sw.pc = "loop"
    /\ sw.todo # <<>>
    /\ IF Expired(sw.current_time, room[Head(sw.todo)].expiry)
       THEN /\ inbox' = Emit("room_expired", EmptyData, Head(sw.todo), "server", TRUE)
            /\ sw' = [sw EXCEPT !.pc = "del"]
       ELSE /\ sw' = [sw EXCEPT !.todo = Tail(@)]
            /\ UNCHANGED inbox
    /\ UNCHANGED <<now, ticks, active_rooms, room, issued, groups, conn, h, v, hist>>

\* line 26: del active_rooms[token]
cleanup_del ==
    /\ sw.pc = "del"
    /\ active_rooms' = Remove(active_rooms, Head(sw.todo))
    /\ sw' = [sw EXCEPT !.pc = "loop", !.todo = Tail(@)]
    /\ UNCHANGED <<now, ticks, room, issued, groups, conn, h, v, inbox, hist>>

\* lines 19-20: the snapshot is exhausted; back to time.sleep(10).  The local
\* current_time is dead until the next pass assigns it.
cleanup_sleep ==
    /\ sw.pc = "loop"
    /\ sw.todo = <<>>
    /\ sw' = [sw EXCEPT !.pc = "sleep", !.since = now, !.current_time = 0]
    /\ UNCHANGED <<now, ticks, active_rooms, room, issued, groups, conn, h, v,
                   inbox, hist>>

----------------------------------------------------------------------------
(* Specifications *)

\* The registry, the room groups and the sweeper: rooms are created, sessions
\* connect, join, leave and disconnect, time passes, the sweeper runs.
RoomNext ==
    \/ Tick
    \/ \E s \in Sids : Connect(s)
    \/ \E s \in Sids : Disconnect(s)
    \/ \E t \in Issuable : generate_token(t)
    \/ \E s \in Sids : handler_return(s)
    \/ \E s \in Sids, d \in TokenData : Admitted < MaxEvents /\ on_join(s, d)
    \/ \E s \in Sids : on_join_room(s)
    \/ \E s \in Sids : on_join_read(s)
    \/ \E s \in Sids : on_join_write(s)
    \/ \E s \in Sids : on_join_emit(s)
    \/ \E s \in Sids, d \in TokenData : Admitted < MaxEvents /\ on_leave(s, d)
    \/ \E s \in Sids : on_leave_room(s)
    \/ \E s \in Sids : on_leave_read(s)
    \/ \E s \in Sids : on_leave_write(s)
    \/ \E s \in Sids : on_leave_emit(s)
    \/ cleanup_wake
    \/ cleanup_check
    \/ cleanup_del
    \/ cleanup_sleep

\* handle_message and ping_check
MessageNext ==
    \/ \E s \in Sids, d \in MessageData : handle_message(s, d)
    \/ \E s \in Sids : handle_message_emit(s)
    \/ \E s \in Sids : ping_check(s)

ConfirmNext == \E s \in Sids, d \in ConfirmData : confirm_delivery(s, d)

\* The broadcasts that leave the sender out
TypingNext ==
    \/ \E s \in Sids, d \in TokenData : handle_typing(s, d)
    \/ \E s \in Sids, d \in TokenData : handle_stop_typing(s, d)
    \/ \E s \in Sids, d \in MetricsData : share_metrics(s, d)

ValidateNext ==
    \/ \E t \in Tokens : validate_token(t)
    \/ validate_token_read
    \/ validate_token_return

\* Payloads that lack a field their handler subscripts
NoTokenData == {EmptyData}

NoPingData == {[token |-> x] : x \in Issuable}

NoMsgIdData == {[sender_socket_id |-> "s1"]}

\* Every handler that takes a payload, given one that lacks a field
MalformedNext ==
    \/ \E s \in Sids, d \in NoTokenData : on_join(s, d)
    \/ \E s \in Sids, d \in NoTokenData : on_leave(s, d)
    \/ \E s \in Sids, d \in NoTokenData : handle_message(s, d)
    \/ \E s \in Sids, d \in NoTokenData : handle_typing(s, d)
    \/ \E s \in Sids, d \in NoTokenData : handle_stop_typing(s, d)
    \/ \E s \in Sids, d \in NoTokenData \cup NoPingData : share_metrics(s, d)
    \/ \E s \in Sids, d \in NoMsgIdData \cup {EmptyData} : confirm_delivery(s, d)

SpecRooms == Init /\ [][RoomNext]_vars

SpecMessage == Init /\ [][RoomNext \/ MessageNext]_vars

SpecConfirm == Init /\ [][RoomNext \/ ConfirmNext]_vars

SpecTyping == Init /\ [][RoomNext \/ TypingNext]_vars

SpecValidate == Init /\ [][RoomNext \/ ValidateNext]_vars

SpecMalformed == Init /\ [][RoomNext \/ MalformedNext]_vars

\* Socket handlers run one at a time: the transport starts none while another
\* is running.  The sweeper is a thread of its own as before.
InFlight == {s \in Sids : h[s].pc # "idle"}

SerialNext ==
    \/ Tick
    \/ \E s \in Sids : Connect(s)
    \/ \E s \in Sids : Disconnect(s)
    \/ \E t \in Issuable : generate_token(t)
    \/ \E s \in Sids, d \in TokenData :
          InFlight = {} /\ Admitted < MaxSerialEvents /\ on_join(s, d)
    \/ \E s \in Sids : on_join_room(s)
    \/ \E s \in Sids : on_join_read(s)
    \/ \E s \in Sids : on_join_write(s)
    \/ \E s \in Sids : on_join_emit(s)
    \/ \E s \in Sids, d \in TokenData :
          InFlight = {} /\ Admitted < MaxSerialEvents /\ on_leave(s, d)
    \/ \E s \in Sids : on_leave_room(s)
    \/ \E s \in Sids : on_leave_read(s)
    \/ \E s \in Sids : on_leave_write(s)
    \/ \E s \in Sids : on_leave_emit(s)
    \/ \E s \in Sids : handler_return(s)
    \/ cleanup_wake
    \/ cleanup_check
    \/ cleanup_del
    \/ cleanup_sleep

SpecSerial == Init /\ [][SerialNext]_vars

\* Every route and every handler of the program.  No join or leave starts
\* while another handler or a validate request is running, and no other
\* handler starts while a socket handler is running; the sweeper is a thread
\* of its own.
AllNext ==
    \/ Tick
    \/ \E s \in Sids : Connect(s)
    \/ \E s \in Sids : Disconnect(s)
    \/ \E t \in Issuable : generate_token(t)
    \/ \E t \in Tokens : InFlight = {} /\ validate_token(t)
    \/ validate_token_read
    \/ validate_token_return
    \/ \E s \in Sids, d \in TokenData :
          InFlight = {} /\ v.pc = "idle" /\ Admitted < MaxEvents /\ on_join(s, d)
    \/ \E s \in Sids : on_join_room(s)
    \/ \E s \in Sids : on_join_read(s)
    \/ \E s \in Sids : on_join_write(s)
    \/ \E s \in Sids : on_join_emit(s)
    \/ \E s \in Sids, d \in TokenData :
          InFlight = {} /\ v.pc = "idle" /\ Admitted < MaxEvents /\ on_leave(s, d)
    \/ \E s \in Sids : on_leave_room(s)
    \/ \E s \in Sids : on_leave_read(s)
    \/ \E s \in Sids : on_leave_write(s)
    \/ \E s \in Sids : on_leave_emit(s)
    \/ \E s \in Sids : handler_return(s)
    \/ \E s \in Sids, d \in MessageData : InFlight = {} /\ handle_message(s, d)
    \/ \E s \in Sids : handle_message_emit(s)
    \/ \E s \in Sids, d \in ConfirmData : InFlight = {} /\ confirm_delivery(s, d)
    \/ \E s \in Sids, d \in TokenData : InFlight = {} /\ handle_typing(s, d)
    \/ \E s \in Sids, d \in TokenData : InFlight = {} /\ handle_stop_typing(s, d)
    \/ \E s \in Sids, d \in MetricsData : InFlight = {} /\ share_metrics(s, d)
    \/ \E s \in Sids : InFlight = {} /\ ping_check(s)
    \/ cleanup_wake
    \/ cleanup_check
    \/ cleanup_del
    \/ cleanup_sleep

SpecAll == Init /\ [][AllNext]_vars

----------------------------------------------------------------------------
(* Properties *)

\* The spec's isValid: present and not yet expired
IsValid(t) == InRegistry(t) /\ now < room[t].expiry

\* No join or leave on token t is running
Settled(t) ==
    \A s \in Sids :
        h[s].ev \in {"join", "leave"} /\ h[s].pc # "idle" /\ Has(h[s].data, "token")
            => h[s].data.token # t

\* How many times connection s has received event ev for room r
Received(s, ev, r) ==
    Len(SelectSeq(inbox[s], LAMBDA e : e.ev = ev /\ e.room = r))

\* C1: N concurrent joins on one valid token, no leave and no eviction in
\* between: once they have all finished, the member count is the count before
\* plus N.  For a room created with count 0: while the room is in the registry
\* and no leave has run on it, the count is the number of finished joins.
C1_NoLostJoin ==
    \A t \in Tokens :
        InRegistry(t) /\ Settled(t) /\ hist[t].leaves = 0
            => room[t].users = hist[t].joins

\* C2: a join racing the sweeper's eviction of its token either finishes its
\* increment before the token is removed or does nothing: no step of a join
\* stores a count into a room that has left the registry, and no join raises
\* because the entry has vanished.
C2_JoinNeverMeetsDeletedRoom ==
    [][\A s \in Sids :
          /\ (h[s].ev = "join" /\ h[s].pc = "write" /\ h'[s].pc = "emit")
                => InRegistry(h[s].data.token)
          /\ (h[s].ev = "join" /\ h[s].pc \in {"read", "emit"})
                => h'[s].pc # "raised"]_vars

\* C4: when the sweeper has evicted a room, every session in that room's group
\* has received exactly one room_expired for it, and nobody ever receives more
\* than one.
C4_ExactlyOneExpiryNotice ==
    \A t \in Tokens, s \in Sids :
        /\ Received(s, "room_expired", t) <= 1
        /\ (t \in issued /\ ~InRegistry(t) /\ s \in groups[t])
              => Received(s, "room_expired", t) = 1

\* C5: for every room in the registry the member count is the number of
\* sessions in the token's group (read when no join or leave is half done).
C5_CountIsGroupSize ==
    \A t \in Tokens :
        InRegistry(t) /\ Settled(t) => room[t].users = Cardinality(groups[t])

\* C6: every room ever created has a member count >= 0, in or out of the
\* registry, and every update_status received carries a count >= 0.
C6_CountNeverNegative ==
    /\ \A t \in Tokens : room[t].users >= 0
    /\ \A s \in Sids : \A i \in 1..Len(inbox[s]) :
          inbox[s][i].ev = "update_status" => inbox[s][i].data.count >= 0

\* C6's case: a leave has found the count at 0 and stored 0, and a member of
\* the room has received the update_status that says 0.
C6_Witness ==
    \E t \in Tokens, s \in Sids :
        /\ hist[t].floored
        /\ room[t].users = 0
        /\ \E i \in 1..Len(inbox[s]) :
              /\ inbox[s][i].ev = "update_status"
              /\ inbox[s][i].room = t
              /\ inbox[s][i].data.count = 0

\* C7: with the handlers run one at a time, each join raises the room's count
\* by exactly 1 and each leave on a count >= 1 lowers it by exactly 1, so that
\* N joins followed by N leaves bring the count back: as long as no leave has
\* met a count of 0, the count of a room in the registry is its finished joins
\* minus its finished leaves.
C7_JoinsAndLeavesCancel ==
    [][/\ \A s \in Sids :
             /\ (h[s].ev = "join" /\ h[s].pc = "write" /\ h'[s].pc = "emit")
                   => room'[h[s].data.token].users = room[h[s].data.token].users + 1
             /\ (h[s].ev = "leave" /\ h[s].pc = "write" /\ h'[s].pc = "emit"
                   /\ room[h[s].data.token].users >= 1)
                   => room'[h[s].data.token].users = room[h[s].data.token].users - 1
       /\ \A t \in Tokens :
             (InRegistry(t) /\ Settled(t) /\ ~hist[t].floored)'
                => (room[t].users = hist[t].joins - hist[t].leaves)']_vars

\* C7's case: two joins and then two leaves have run on a room that is still
\* in the registry, and its count is back at 0.
C7_Witness ==
    \E t \in Tokens :
        /\ InRegistry(t) /\ Settled(t) /\ ~hist[t].floored
        /\ hist[t].joins = 2 /\ hist[t].leaves = 2
        /\ room[t].users = 0

\* C3: once a room's lifetime has elapsed, validate_token answers for its
\* token with valid: false; a sweeper pass that began after the expiry leaves
\* no such room in the registry; and nothing changes a room's expiry.
C3_ExpiredIsInvalidAndSwept ==
    [][/\ (v.pc # "done" /\ v'.pc = "done" /\ v'.tok \in issued
             /\ now >= room[v'.tok].expiry)
          => v'.res = "invalid"
       /\ (sw.pc = "loop" /\ sw'.pc = "sleep")
          => \A t \in Tokens :
                InRegistry(t) => ~(sw.current_time > room[t].expiry)
       /\ \A t \in issued : room'[t].expiry = room[t].expiry]_vars

\* C8: msg_delivered for a confirm_delivery that names S reaches the
\* connection S and no other: every msg_delivered a connection has received
\* was addressed to that connection.
C8_DeliveredOnlyToNamedConnection ==
    \A s \in Sids : \A i \in 1..Len(inbox[s]) :
        inbox[s][i].ev = "msg_delivered" => inbox[s][i].room = s

\* The last delivery of a step that has delivered to connection s
Delivered(s) == Len(inbox'[s]) > Len(inbox[s])

NewEntry(s) == inbox'[s][Len(inbox'[s])]

\* C9: display_typing, hide_typing and update_peer_metrics are delivered only
\* for a token that is a valid room when the event is handled: no connection
\* receives one for a room token that is unknown, expired or evicted.
C9_TypingOnlyOnValidRoom ==
    [][\A s \in Sids :
          (Delivered(s)
             /\ NewEntry(s).ev \in {"display_typing", "hide_typing", "update_peer_metrics"}
             /\ NewEntry(s).room \in Tokens)
          => IsValid(NewEntry(s).room)]_vars

\* C10: join, leave and message go past their check only when the token is
\* valid at that moment (in the registry and now < expiry): an event on a
\* token that is present but expired starts nothing.
C10_HandlersRequireValidToken ==
    [][\A s \in Sids :
          (h[s].pc = "idle" /\ h'[s].pc \notin {"idle", "raised"})
          => IsValid(h'[s].data.token)]_vars

\* The spec's exists: the token is a key of the registry
Present(t) == \E i \in 1..Len(active_rooms) : active_rooms[i] = t

\* C11: a join, leave or message whose token is not in the registry is a
\* silent no-op.  Every effect of these handlers is made by the steps after
\* their check, so: the step that handles the event changes neither the
\* registry, nor a room, nor a group, nor an inbox; it goes past the check only
\* for a token that is a key of the registry; and it raises only when the
\* payload has no token at all.
C11_UnknownTokenIsNoOp ==
    [][\A s \in Sids :
          (h[s].pc = "idle" /\ h'[s].pc # "idle"
             /\ h'[s].ev \in {"join", "leave", "message"})
          => /\ UNCHANGED <<active_rooms, room, groups, inbox>>
             /\ Has(h'[s].data, "token") =>
                   (h'[s].pc # "raised" /\ Present(h'[s].data.token))]_vars

\* C11's case: T1 has been created and evicted while s1, connected and idle,
\* is still in its group, and T2 was never created: a join, leave or message
\* from s1 on either token leaves this state as it is.
C11_Witness ==
    /\ "T1" \in issued /\ ~Present("T1") /\ ~Present("T2")
    /\ conn["s1"] = "up" /\ h["s1"].pc = "idle"
    /\ "s1" \in groups["T1"]
    /\ ENABLED on_join("s1", [token |-> "T1"])
    /\ ENABLED handle_message("s1", [token |-> "T2", msg |-> "hi"])

\* The fields the handler of event ev subscripts in its payload
Required(ev) ==
    CASE ev \in {"join", "leave", "message", "typing", "stop_typing"} -> {"token"}
      [] ev = "share_metrics" -> {"token", "ping"}
      [] ev = "confirm_delivery" -> {"msg_id"}
      [] OTHER -> {}

Lacks(ev, data) == \E f \in Required(ev) : ~Has(data, f)

\* C12: an event whose payload lacks a required field is rejected or ignored:
\* the step that handles it raises no error, changes no registry state and
\* emits nothing.
C12_MalformedIsIgnored ==
    [][\A s \in Sids :
          (h[s].pc = "idle" /\ h'[s].pc # "idle" /\ Lacks(h'[s].ev, h'[s].data))
          => /\ h'[s].pc # "raised"
             /\ UNCHANGED <<active_rooms, room, groups, inbox>>]_vars

\* The counts of the update_status events connection s has received for
\* room t, in the order received
StatusSeen(s, t) ==
    LET q == SelectSeq(inbox[s], LAMBDA e : e.ev = "update_status" /\ e.room = t)
    IN  [i \in 1..Len(q) |-> q[i].data.count]

\* Room t has been created, two sessions have joined it one after the other,
\* both are still in its group, and nothing else has happened to it.
TwoJoined(t) ==
    /\ InRegistry(t) /\ Settled(t)
    /\ hist[t].joins = 2 /\ hist[t].leaves = 0
    /\ Cardinality(groups[t]) = 2

\* C13, as stated: after two sessions have joined T one after the other,
\* both joiners have observed update_status {count:1} and then {count:2}.
C13_BothSeeOneThenTwo ==
    \A t \in Tokens :
        TwoJoined(t) => \A s \in groups[t] : StatusSeen(s, t) = <<1, 2>>

\* C13, amended: the first joiner has observed {count:1} then {count:2}; the
\* second joiner, which was not in the group when count 1 was broadcast, has
\* observed {count:2} only.
C13_FirstSeesOneTwoSecondSeesTwo ==
    \A t \in Tokens :
        TwoJoined(t) =>
            \E a, b \in groups[t] :
                /\ a # b
                /\ StatusSeen(a, t) = <<1, 2>>
                /\ StatusSeen(b, t) = <<2>>

\* C13's case: both sessions have joined T1 and both joins have finished.
C13_Witness == TwoJoined("T1") /\ groups["T1"] = Sids

\* C14: validate answers valid: true, with remaining > 0, exactly when the
\* token is in the registry and now < expiry; it answers valid: false for a
\* token never created, and valid: false for a token it has found in the
\* registry past its expiry, whatever the sweeper is doing.
C14_ValidExactlyWhenValid ==
    [][(v.pc # "done" /\ v'.pc = "done")
          => /\ (v'.res = "valid") <=> IsValid(v'.tok)
             /\ (v'.res = "valid") => v'.remaining > 0
             /\ (v'.tok \notin issued) => v'.res = "invalid"
             /\ (v.pc = "read" /\ now >= room[v'.tok].expiry)
                   => v'.res = "invalid"]_vars

TypingEvents == {"display_typing", "hide_typing", "update_peer_metrics"}

\* C15: a typing, stop_typing or share_metrics broadcast is never delivered
\* to the connection that sent it, whatever groups that connection is in; it
\* is delivered only to members of the group the event names.
C15_NeverBackToSender ==
    [][\A s \in Sids :
          (Delivered(s) /\ NewEntry(s).ev \in TypingEvents)
          => /\ NewEntry(s).from # s
             /\ s \in Members(NewEntry(s).room)]_vars

\* C15's case: both sessions are in T1's group, s2 has sent a typing,
\* stop_typing or share_metrics event on T1, s1 has received it and s2 has not.
C15_Witness ==
    /\ groups["T1"] = Sids
    /\ \E i \in 1..Len(inbox["s1"]) :
          /\ inbox["s1"][i].ev \in TypingEvents
          /\ inbox["s1"][i].from = "s2"
          /\ inbox["s1"][i].room = "T1"
    /\ \A i \in 1..Len(inbox["s2"]) : inbox["s2"][i].ev \notin TypingEvents

\* C16: a room's expiry is set when the room is created, to the creation time
\* plus ROOM_TTL, with a member count of 0, and no step changes it afterwards;
\* a room leaves the registry only by the sweeper's del.
C16_ExpiryFixedAtCreation ==
    [][\A t \in Tokens :
          /\ (t \in issued' /\ t \notin issued)
                => /\ room'[t] = [expiry |-> now + ROOM_TTL, users |-> 0]
                   /\ Present(t)'
          /\ (t \in issued \/ t \notin issued')
                => room'[t].expiry = room[t].expiry
          /\ (Present(t) /\ ~Present(t)')
                => (sw.pc = "del" /\ Head(sw.todo) = t /\ sw'.pc = "loop")]_vars

\* C16's case: time has passed since T1 was created at time 0, a session has
\* joined it, a relayed event has been delivered, a validate request has been
\* answered, and T1's expiry is still its creation time plus ROOM_TTL.
C16_Witness ==
    /\ Present("T1") /\ now > 0
    /\ room["T1"].expiry = ROOM_TTL
    /\ room["T1"].users >= 1
    /\ \E s \in Sids : Relayed(s) >= 1
    /\ v.pc = "done" /\ v.tok = "T1"

\* C17: a message that has passed its check is delivered, with the payload
\* as it came in, to every session that is in the token's group when it is
\* emitted (the sender too when it is a member) and to no other session, and
\* neither the check nor the emit changes the registry.
C17_MessageRelayedVerbatim ==
    [][\A s \in Sids :
          /\ (h[s].pc = "idle" /\ h'[s].ev = "message" /\ h'[s].pc = "emit")
                => UNCHANGED <<active_rooms, room, groups, inbox>>
          /\ (h[s].ev = "message" /\ h[s].pc = "emit" /\ h'[s].pc = "idle")
                => /\ UNCHANGED <<active_rooms, room, groups>>
                   /\ \A x \in Sids :
                         inbox'[x] =
                            IF x \in groups[h[s].data.token]
                            THEN Append(inbox[x],
                                        [ev |-> "message", data |-> h[s].data,
                                         room |-> h[s].data.token, from |-> s])
                            ELSE inbox[x]]_vars

\* C17's case: both sessions are in T1's group and each has received s1's
\* message on T1 with the payload s1 sent.
C17_Witness ==
    /\ groups["T1"] = Sids
    /\ \A x \in Sids :
          \E i \in 1..Len(inbox[x]) :
              inbox[x][i] = [ev |-> "message", room |-> "T1", from |-> "s1",
                             data |-> [token |-> "T1", msg |-> "hi"]]

\* C18: when a sweeper pass that read the clock at current_time ends, no room
\* with expiry <= current_time is left in the registry, a room whose expiry
\* equals current_time included.
C18_PassRemovesExpiryAtMostNow ==
    [][(sw.pc = "loop" /\ sw'.pc = "sleep")
          => \A t \in Tokens :
                Present(t) => ~(room[t].expiry <= sw.current_time)]_vars

\* C19: the sweeper never evicts early.  It emits room_expired for a token,
\* and removes the token from the registry, only when the time is past the
\* room's expiry: a room validate would still call valid is never removed, and
\* no connection receives room_expired for it.
C19_NoEarlyEviction ==
    [][/\ (sw.pc = "loop" /\ sw'.pc = "del")
             => now > room[Head(sw.todo)].expiry
       /\ \A t \in Tokens :
             (Present(t) /\ ~Present(t)')
                => (now > room[t].expiry /\ ~IsValid(t))
       /\ \A s \in Sids :
             (Delivered(s) /\ NewEntry(s).ev = "room_expired")
                => /\ now > room[NewEntry(s).room].expiry
                   /\ ~IsValid(NewEntry(s).room)]_vars

\* C19's case: the sweeper has evicted T1 after its expiry, and s1, a member
\* of its group, has received room_expired for it.
C19_Witness ==
    /\ "T1" \in issued /\ ~Present("T1")
    /\ now > room["T1"].expiry
    /\ "s1" \in groups["T1"]
    /\ Received("s1", "room_expired", "T1") = 1

====
